---- MODULE Spec2Model ----
(***************************************************************************)
(* N-dimensional boundary search (src/src/nd.ts) as a state machine.       *)
(*                                                                         *)
(* ndBinarySearch returns a generator.  The generator is modelled by its   *)
(* suspended call chain: a stack of dfsBinarySearch frames, each of which  *)
(* owns the chain of divide frames it is iterating with for..of.  Vectors  *)
(* are sequences of integers; component index i of the source (0-based)    *)
(* is index i+1 here.  The caller-supplied functions are inputs: the       *)
(* midpoint and shouldContinue arrays hold the kind of function in each    *)
(* slot, and predicate is the set of vectors of the box on which the       *)
(* caller's predicate is true.                                             *)
(*                                                                         *)
(* Arrays and Sets are objects: heap holds the vectors and the component   *)
(* sets that exist, and a division, a frame and the caller refer to one by *)
(* its index in heap.  A component set is the sequence of its members in   *)
(* insertion order.  The first two objects of heap are the arrays the      *)
(* caller passed as alwaysEnd and neverEnd.  A second generator object,    *)
(* when there is one, is parked in other while the caller works with the   *)
(* first.                                                                  *)
(*                                                                         *)
(* The caller's functions may throw: fault tells which call of which       *)
(* function does, and caught holds the error the caller caught from a      *)
(* pull.                                                                   *)
(*                                                                         *)
(* The scalar and array searches of index.ts are functions of their        *)
(* arguments: args holds one call, returned what it gave back.             *)
(***************************************************************************)
EXTENDS Integers, Sequences, FiniteSets, TLC

\* Largest total width of the box: the sum over i of neverEnd[i] - alwaysEnd[i].
MaxGap == 6
\* Largest number of grid points of the box between alwaysEnd and neverEnd,
\* corners included.
MaxCells == 27
\* Longest sorted array given to an array search.
MaxLen == 4
\* Largest element of a sorted array; the targets go one below the smallest
\* element and one above the largest.
MaxValue == 3
\* The endpoints of a scalar search lie between -MaxScalar and MaxScalar.
MaxScalar == 4
\* Largest total width of the box of a search in which a continuation function
\* may never return false.
MaxStuck == 3
\* A function of the caller that throws does so at one of its first
\* MaxFaultAt calls.
MaxFaultAt == 5

VARIABLES alwaysEnd, neverEnd, predicate, midpoint, shouldContinue,
          mode, stack, yielded, calls, pulls,
          heap, yieldedRefs, other, args, returned, fault, caught

vars == <<alwaysEnd, neverEnd, predicate, midpoint, shouldContinue,
          mode, stack, yielded, calls, pulls,
          heap, yieldedRefs, other, args, returned, fault, caught>>

\* The arguments of the call, and fault: which call of which of the caller's
\* functions throws, if any
inputs == <<alwaysEnd, neverEnd, predicate, midpoint, shouldContinue, fault>>

\* What a step of one generator that does not fail leaves alone: the other
\* generator object, the calls of index.ts, and the error the caller has
\* caught from a pull
outside == <<other, args, returned, caught>>

----------------------------------------------------------------------------
(* Helpers on vectors *)

Range(s) == {s[k] : k \in 1..Len(s)}

RECURSIVE SumVec(_)
SumVec(v) == IF v = <<>> THEN 0 ELSE Head(v) + SumVec(Tail(v))

Abs(x) == IF x < 0 THEN -x ELSE x

Min(x, y) == IF x < y THEN x ELSE y

\* v <= w in every coordinate
Leq(v, w) == Len(v) = Len(w) /\ \A i \in 1..Len(v) : v[i] <= w[i]

\* v + (1,...,1)
PlusOne(v) == [i \in 1..Len(v) |-> v[i] + 1]

Manhattan(v, w) == SumVec([i \in 1..Len(v) |-> Abs(v[i] - w[i])])

\* The number of grid points of the box between a and n
RECURSIVE Cells(_, _)
Cells(a, n) ==
    IF a = <<>> THEN 1 ELSE (Head(n) - Head(a) + 1) * Cells(Tail(a), Tail(n))

\* Largest number of components: the boxes of MaxCells grid points can be
\* three points wide in that many components at once
MaxDim == CHOOSE d \in 1..MaxCells : 3^d <= MaxCells /\ 3^(d + 1) > MaxCells

\* The caller's midpoint and continuation functions commute with translation,
\* so the boxes all start at the origin
Origin(len) == [i \in 1..len |-> 0]

----------------------------------------------------------------------------
(* The caller's functions *)

\* test/nd.test.ts: mid = Math.floor((always + never) / 2); "ceil" is the
\* other integer midpoint that lies between its two arguments.
MidKinds == {"floor", "ceil"}

\* test/nd.test.ts: c = never - always > 1
ContKinds == {"gap"}

\* test/index.test.ts 666: Math.abs(always - never) > 1, the continuation
\* function of a scalar search over a range in either direction
ScalarContKinds == {"absgap"}

\* A continuation function that never lets its component converge: true for
\* every pair of arguments
StuckContKinds == {"always"}

MidFn(kind, always, never) ==
    IF kind = "floor" THEN (always + never) \div 2
                      ELSE (always + never + 1) \div 2

ContFn(kind, always, never) ==
    IF kind = "always" THEN TRUE
    ELSE IF kind = "absgap" THEN Abs(never - always) > 1 ELSE never - always > 1

\* The caller's predicate.  It is given on the box as the set of vectors where
\* it is true; beyond the never corner it is continued by its largest monotone
\* extension (the value at the nearest point of the box).
Predicate(v) == [i \in 1..Len(v) |-> Min(v[i], neverEnd[i])] \in predicate

\* Nonincreasing (by inclusion) sequences of k members of cands
RECURSIVE Chains(_, _)
Chains(k, cands) ==
    IF k = 0 THEN {<<>>}
    ELSE UNION {{<<s>> \o c : c \in Chains(k - 1, {r \in cands : r \subseteq s})}
                : s \in cands}

\* All sets S of vectors of the box [a, n] that are closed downwards: the
\* predicates "v \in S" are exactly the predicates monotone over the box.
RECURSIVE DownSets(_, _)
DownSets(a, n) ==
    IF a = <<>> THEN {{}, {<<>>}}
    ELSE LET rest == DownSets(Tail(a), Tail(n))
         IN {UNION {{<<Head(a) + k - 1>> \o v : v \in c[k]} : k \in 1..Len(c)}
             : c \in Chains(Head(n) - Head(a) + 1, rest)}

\* Monotone predicates that are true at alwaysEnd and false at neverEnd
MonotonePredicates(a, n) ==
    {S \in DownSets(a, n) : a \in S /\ n \notin S}

----------------------------------------------------------------------------
(* nd.ts *)

\* createShouldContinue with "every component continues" in place of the
\* per-component test: a component that has converged stops all of them
createShouldContinueAllOrNone(division, components) ==
    IF \A k \in 1..Len(components) :
          ContFn(shouldContinue[components[k]], division.always[components[k]],
                 division.never[components[k]])
    THEN components ELSE <<>>

\* createShouldContinue that adds every component whatever its function returns
createShouldContinueIgnoresResult(division, components) == components

\* createShouldContinue (nd.ts 29-42): the components, in their order, whose
\* continuation function returns true
createShouldContinue(division, components) ==
    SelectSeq(components,
              LAMBDA i : ContFn(shouldContinue[i], division.always[i], division.never[i]))

\* createMidpoint that applies the midpoint function to every component
createMidpointAll(division, components) ==
    [i \in 1..Len(midpoint) |->
        MidFn(midpoint[i], division.always[i], division.never[i])]

\* createMidpoint (nd.ts 44-54): the midpoint function on the active
\* components, always[i] on the others
createMidpoint(division, components) ==
    [i \in 1..Len(midpoint) |->
        IF i \in Range(components)
        THEN MidFn(midpoint[i], division.always[i], division.never[i])
        ELSE division.always[i]]

\* The vectors a division refers to
Val(division) == [always |-> heap[division.always], never |-> heap[division.never]]

\* vectorWith without the copy: the assignment goes to the vector passed in
vectorWithInPlace(h, vector, index, value) ==
    [heap |-> [h EXCEPT ![vector][index] = value], ref |-> vector]

\* vectorWith that copies after the assignment instead of before it
vectorWithCopiesLate(h, vector, index, value) ==
    LET written == [h EXCEPT ![vector][index] = value]
    IN [heap |-> Append(written, written[vector]), ref |-> Len(h) + 1]

\* vectorWith (nd.ts 57-65) on the heap h: slice() makes a new array, the
\* assignment goes to the new array, and the new array is returned
vectorWith(h, vector, index, value) ==
    [heap |-> Append(h, [h[vector] EXCEPT ![index] = value]), ref |-> Len(h) + 1]

\* A local that has no object yet
NoRef == 0

\* A call of divide (nd.ts 68-74), about to yield its full division.  Its own
\* set _components does not exist before the call is resumed (nd.ts 79); i
\* is the component its loop is at.  omissions lists the components omitted
\* on the way to this call, outermost first.
DivideFrame(forward, backward, mid, result, components) ==
    [forward |-> forward, backward |-> backward, mid |-> mid, result |-> result,
     components |-> components, _components |-> NoRef, i |-> 0, pc |-> "first",
     omissions |-> <<>>]

\* A call of dfsBinarySearch (nd.ts 107-110) that has not started yet.
\* children collects the divisions its for..of has received so far and
\* origins the omissions each of them came from; evaluated lists the
\* omissions on which its divide calls have evaluated predicate, with the
\* outcome of the test of nd.ts 86.
DfsFrame(division, components) ==
    [division |-> division, components |-> components, pc |-> "start",
     _components |-> NoRef, divisions |-> <<>>, children |-> <<>>,
     origins |-> <<>>, evaluated |-> <<>>]

Top == stack[Len(stack)]

SetTop(frame) == [stack EXCEPT ![Len(stack)] = frame]

\* FullDivision without the case distinction on result
FullDivisionIgnoresResult(f) == [always |-> f.forward, never |-> f.mid]

\* FullDivision with its two cases exchanged
FullDivisionSwapped(f) ==
    IF f.result THEN [always |-> f.forward, never |-> f.mid]
                ELSE [always |-> f.mid, never |-> f.forward]

\* The division a divide call yields first (nd.ts 76-78)
FullDivision(f) ==
    IF f.result THEN [always |-> f.mid, never |-> f.forward]
                ELSE [always |-> f.forward, never |-> f.mid]

\* The test of nd.ts 86 inverted
PrunesInverted(omitted, result) == Predicate(omitted) # result

\* The test of nd.ts 86 dropped: every omission is followed
PrunesNever(omitted, result) == FALSE

\* The test of nd.ts 86 dropped the other way: no omission is followed
PrunesAlways(omitted, result) == TRUE

\* The test of nd.ts 86 against a constant: skipped when predicate is false
PrunesIgnoresResult(omitted, result) == ~Predicate(omitted)

\* nd.ts 86: the omission leaves the result unchanged, so it is skipped
Prunes(omitted, result) == Predicate(omitted) = result

\* The recursive call given the loop's components without the deletion of nd.ts 82
RecursionComponentsKeepsCurrent(_components) == _components

\* nd.ts 82 and 95: the loop deletes the component it is at, the first that
\* is left in its set, so the components the recursive divide call receives
\* are those that come after it
RecursionComponents(_components) == Tail(_components)

\* The recursive call given the set the call itself received
RecursionSetOfCaller(frame) == frame.components

\* nd.ts 95: the recursive divide call is given the set the loop deletes from
RecursionSet(frame) == frame._components

\* nd.ts 79 without the copy: _components is the set the call received
CopyComponentsAliased(h, components) == [heap |-> h, ref |-> components]

\* nd.ts 79: new Set(components) makes a set of its own with the same members
CopyComponents(h, components) ==
    [heap |-> Append(h, h[components]), ref |-> Len(h) + 1]

\* divide resumed after its first yield: nd.ts 79 has made the set
\* _components once the call has gone past it
Resumed(h, f) ==
    IF f._components = NoRef THEN CopyComponents(h, f.components)
    ELSE [heap |-> h, ref |-> f._components]

\* for (const i of _components), nd.ts 81: the members of the set that the
\* iterator has not passed; the members are in increasing order
Remaining(_components, i) == SelectSeq(_components, LAMBDA j : j > i)

\* The search of a sub-division given the components the caller received
ChildComponentsNotNarrowed(frame) == frame.components

\* The search of a sub-division given the set of all components (nd.ts 169)
ChildComponentsInitial(frame) == stack[1].components

\* nd.ts 126: the search of a sub-division receives the components that are
\* still active in its caller
ChildComponents(frame) == frame._components

\* The end of the search when the call has deactivated a component
TerminalWhenNarrowed(components, _components) == Len(_components) < Len(components)

\* nd.ts 112: _components.size === 0
Terminal(components, _components) == Len(_components) = 0

\* The never corner yielded in place of the always corner
YieldsNever(division) == division.never

\* nd.ts 113: yield division.always
Yields(division) == division.always

\* backward taken from the same corner as forward
BackwardSameAsForward(division, result) ==
    IF result THEN division.never ELSE division.always

\* forward taken from the always corner whatever the result
ForwardAlwaysCorner(division, result) == division.always

\* nd.ts 120
Forward(division, result) == IF result THEN division.never ELSE division.always

\* nd.ts 121
Backward(division, result) == IF result THEN division.always ELSE division.never

\* The length check without its last comparison
LengthMismatchSkipsShouldContinue ==
    \/ Len(alwaysEnd) # Len(neverEnd)
    \/ Len(neverEnd) # Len(midpoint)

\* The length check followed by the endpoint checks of the scalar search
LengthMismatchOrEndpoints ==
    \/ Len(alwaysEnd) # Len(neverEnd)
    \/ Len(neverEnd) # Len(midpoint)
    \/ Len(midpoint) # Len(shouldContinue)
    \/ ~Predicate(alwaysEnd)
    \/ Predicate(neverEnd)

\* The length check of ndBinarySearch (nd.ts 158-162)
LengthMismatch ==
    \/ Len(alwaysEnd) # Len(neverEnd)
    \/ Len(neverEnd) # Len(midpoint)
    \/ Len(midpoint) # Len(shouldContinue)

\* An ordinary function in place of the generator: its body starts at the call
ModeAfterCallEager == "running"

\* A generator object is created suspended at the start of its body (nd.ts 172)
ModeAfterCall == "suspended"

\* The calls of the caller's functions so far: how many of each, and the
\* components whose continuation or midpoint function the latest
\* createShouldContinue or createMidpoint called, with the depth of the
\* dfsBinarySearch that made it
NoCalls ==
    [predicate |-> 0, midpoint |-> 0, shouldContinue |-> 0,
     latest |-> [shouldContinue |-> {}, midpoint |-> {}, depth |-> 0]]

\* No run on converging inputs nests dfsBinarySearch deeper than this: every
\* level narrows each active component.  It keeps the stack of a search that
\* does not converge finite.
DepthCap == Manhattan(alwaysEnd, neverEnd) + 2

----------------------------------------------------------------------------
(* Inputs *)

\* Monotone predicates that the scalar search would reject: false at
\* alwaysEnd (false everywhere) or true at neverEnd (true everywhere)
BadEndpointPredicates(a, n) ==
    {S \in DownSets(a, n) : a \notin S \/ n \in S}

\* No second generator object
NoOther == [mode |-> "none"]

\* No call of index.ts
NoArgs == [fn |-> "ndBinarySearch"]

NotReturned == [returned |-> FALSE, error |-> "", value |-> 0]

\* None of the caller's functions throws
NoFault == [fn |-> "none"]

\* The caller has caught nothing
NoError == ""

\* The n calls of the function fn made next, after the calls made so far,
\* include the one that throws
Throws(fn, made, n) ==
    fault.fn = fn /\ made < fault.at /\ fault.at <= made + n

\* Before the call: no generator yet, the caller holds its two arrays
BeforeCall ==
    /\ mode = "idle"
    /\ stack = <<>>
    /\ yielded = <<>>
    /\ yieldedRefs = <<>>
    /\ calls = NoCalls
    /\ pulls = 0
    /\ heap = <<alwaysEnd, neverEnd>>
    /\ caught = NoError

Init ==
    /\ \E la, ln, lm, lc \in 0..MaxDim :
         /\ \E mk \in MidKinds : midpoint = [i \in 1..lm |-> mk]
         /\ \E ck \in ContKinds : shouldContinue = [i \in 1..lc |-> ck]
         /\ IF la = ln /\ ln = lm /\ lm = lc
            THEN /\ alwaysEnd = Origin(la)
                 /\ neverEnd \in [1..ln -> 0..MaxGap]
                 /\ Manhattan(alwaysEnd, neverEnd) <= MaxGap
                 /\ Cells(alwaysEnd, neverEnd) <= MaxCells
                 /\ predicate \in MonotonePredicates(alwaysEnd, neverEnd)
                                   \cup BadEndpointPredicates(alwaysEnd, neverEnd)
            ELSE /\ alwaysEnd = Origin(la)
                 /\ neverEnd = [i \in 1..ln |-> 1]
                 /\ predicate = {alwaysEnd}
    /\ fault = NoFault
    /\ BeforeCall
    /\ other = NoOther
    /\ args = NoArgs
    /\ returned = NotReturned

\* test/nd.test.ts 10: r
SphereR == 4

\* test/nd.test.ts 12-20: the sphere scenario
SphereAlwaysEnd == <<0, 0, 0>>

SphereNeverEnd == <<SphereR * 4, SphereR * 2, SphereR * 3>>

SpherePredicate ==
    {v \in [1..3 -> 0..(SphereR * 4)] :
        /\ Leq(v, SphereNeverEnd)
        /\ v[1] * v[1] + v[2] * v[2] + v[3] * v[3] < SphereR * SphereR}

\* The inputs of test/nd.test.ts: the sphere scenario (9-30) and the three
\* calls with mismatching lengths (104-138)
InitTest ==
    /\ \/ /\ alwaysEnd = SphereAlwaysEnd
          /\ neverEnd = SphereNeverEnd
          /\ predicate = SpherePredicate
          /\ midpoint = <<"floor", "floor", "floor">>
          /\ shouldContinue = <<"gap", "gap", "gap">>
       \/ /\ alwaysEnd = <<0, 0, 0>>
          /\ neverEnd = <<1, 1>>
          /\ predicate = {<<0, 0>>, <<0, 1>>, <<1, 0>>, <<1, 1>>}
          /\ midpoint = <<"floor", "floor">>
          /\ shouldContinue = <<"gap", "gap">>
       \/ /\ alwaysEnd = <<0, 0>>
          /\ neverEnd = <<2, 2>>
          /\ predicate = {<<0, 0>>, <<0, 1>>, <<1, 0>>}
          /\ \/ midpoint = <<"floor">> /\ shouldContinue = <<"gap", "gap">>
             \/ midpoint = <<"floor", "floor">> /\ shouldContinue = <<"gap">>
    /\ fault = NoFault
    /\ BeforeCall
    /\ other = NoOther
    /\ args = NoArgs
    /\ returned = NotReturned

\* README "N-dimensional search": r of the quarter circle
CircleR == 4

\* The calls the tests and the README make, as records of their arguments:
\* the sphere scenario, the quarter circle of the README, and one call with
\* mismatching lengths (test/nd.test.ts 115-125)
DocumentedCalls ==
    {[alwaysEnd |-> SphereAlwaysEnd, neverEnd |-> SphereNeverEnd,
      predicate |-> SpherePredicate,
      midpoint |-> <<"floor", "floor", "floor">>,
      shouldContinue |-> <<"gap", "gap", "gap">>],
     [alwaysEnd |-> <<0, 0>>, neverEnd |-> <<CircleR, CircleR>>,
      predicate |-> {v \in [1..2 -> 0..CircleR] :
                        v[1] * v[1] + v[2] * v[2] < CircleR * CircleR},
      midpoint |-> <<"floor", "floor">>,
      shouldContinue |-> <<"gap", "gap">>],
     [alwaysEnd |-> <<0, 0>>, neverEnd |-> <<2, 2>>,
      predicate |-> {<<0, 0>>, <<0, 1>>, <<1, 0>>},
      midpoint |-> <<"floor">>,
      shouldContinue |-> <<"gap", "gap">>]}

\* A generator object the caller is not working with at the moment: the
\* arguments of its call, the heap as it left it, and where it stands.
\* shared tells that its call was given the very arrays of the other call.
Parked(call, shared, h, m, s, y, r, c, p) ==
    [alwaysEnd |-> call.alwaysEnd, neverEnd |-> call.neverEnd,
     predicate |-> call.predicate, midpoint |-> call.midpoint,
     shouldContinue |-> call.shouldContinue,
     shared |-> shared, heap |-> h,
     mode |-> m, stack |-> s, yielded |-> y, yieldedRefs |-> r,
     calls |-> c, pulls |-> p]

\* Two calls of ndBinarySearch, with the same arrays or with arguments of
\* their own, neither made yet
InitTwo ==
    /\ \E first, second \in DocumentedCalls, shared \in BOOLEAN :
         /\ shared => first = second
         /\ alwaysEnd = first.alwaysEnd
         /\ neverEnd = first.neverEnd
         /\ predicate = first.predicate
         /\ midpoint = first.midpoint
         /\ shouldContinue = first.shouldContinue
         /\ other = Parked(second, shared, <<second.alwaysEnd, second.neverEnd>>,
                           "idle", <<>>, <<>>, <<>>, NoCalls, 0)
    /\ fault = NoFault
    /\ BeforeCall
    /\ args = NoArgs
    /\ returned = NotReturned

----------------------------------------------------------------------------
(* Operations *)

\* ndBinarySearch(...) with mismatching lengths: throws (nd.ts 158-164)
CallThrows ==
    /\ mode = "idle"
    /\ LengthMismatch
    /\ mode' = "thrown"
    /\ UNCHANGED <<inputs, stack, yielded, calls, pulls, heap, yieldedRefs, outside>>

\* nd.ts 170: the first division refers to the caller's own two arrays, the
\* first and the second vector of heap
CallerDivision == [always |-> 1, never |-> 2]

\* ndBinarySearch(...): makes the set of all components and returns the
\* generator (nd.ts 165-172)
CallReturns ==
    /\ mode = "idle"
    /\ ~LengthMismatch
    /\ heap' = Append(heap, [i \in 1..Len(alwaysEnd) |-> i])
    /\ stack' = <<DfsFrame(CallerDivision, Len(heap) + 1)>>
    /\ mode' = ModeAfterCall
    /\ UNCHANGED <<inputs, yielded, calls, pulls, yieldedRefs, outside>>

\* generator.next(): the caller pulls the next element
Pull ==
    /\ mode = "suspended"
    /\ mode' = "running"
    /\ pulls' = pulls + 1
    /\ UNCHANGED <<inputs, stack, yielded, calls, heap, yieldedRefs, outside>>

\* dfsBinarySearch, nd.ts 111-112
DfsShouldContinue ==
    /\ mode = "running" /\ stack # <<>> /\ Top.pc = "start"
    /\ ~Throws("shouldContinue", calls.shouldContinue, Len(heap[Top.components]))
    /\ \E c \in {createShouldContinue(Val(Top.division), heap[Top.components])} :
          /\ heap' = Append(heap, c)
          /\ stack' = SetTop([Top EXCEPT !._components = Len(heap) + 1,
                                         !.pc = IF Terminal(heap[Top.components], c)
                                                THEN "yield" ELSE "mid"])
    /\ calls' = [calls EXCEPT !.shouldContinue = @ + Len(heap[Top.components]),
                              !.latest = [shouldContinue |-> Range(heap[Top.components]),
                                          midpoint |-> {},
                                          depth |-> Len(stack)]]
    /\ UNCHANGED <<inputs, mode, yielded, pulls, yieldedRefs, outside>>

\* dfsBinarySearch, nd.ts 113: yield division.always
DfsYield ==
    /\ mode = "running" /\ stack # <<>> /\ Top.pc = "yield"
    /\ yielded' = Append(yielded, heap[Yields(Top.division)])
    /\ yieldedRefs' = Append(yieldedRefs, Yields(Top.division))
    /\ stack' = SetTop([Top EXCEPT !.pc = "return"])
    /\ mode' = "suspended"
    /\ UNCHANGED <<inputs, calls, pulls, heap, outside>>

\* dfsBinarySearch, nd.ts 117-123
DfsDivide ==
    /\ mode = "running" /\ stack # <<>> /\ Top.pc = "mid"
    /\ ~Throws("midpoint", calls.midpoint, Len(heap[Top._components]))
    /\ ~Throws("predicate", calls.predicate, 1)
    /\ \E division \in {Top.division} :
       \E mid \in {createMidpoint(Val(division), heap[Top._components])} :
       \E result \in {Predicate(mid)} :
       \E forward \in {Forward(division, result)} :
       \E backward \in {Backward(division, result)} :
          /\ heap' = Append(heap, mid)
          /\ stack' = SetTop([Top EXCEPT
                         !.divisions = <<DivideFrame(forward, backward, Len(heap) + 1,
                                                     result, Top._components)>>,
                         !.pc = "loop"])
    /\ calls' = [calls EXCEPT !.midpoint = @ + Len(heap[Top._components]),
                              !.predicate = @ + 1,
                              !.latest = [shouldContinue |-> {},
                                          midpoint |-> Range(heap[Top._components]),
                                          depth |-> Len(stack)]]
    /\ UNCHANGED <<inputs, mode, yielded, pulls, yieldedRefs, outside>>

\* The divide call on which the for..of of the running dfsBinarySearch waits
TopDivide == Top.divisions[Len(Top.divisions)]

InDivide == mode = "running" /\ stack # <<>> /\ Top.pc = "loop" /\ Top.divisions # <<>>

\* divide, nd.ts 76-79: the full division is yielded to the for..of of
\* dfsBinarySearch, which starts the search of it (nd.ts 125-126)
DivideYieldFull ==
    /\ InDivide /\ TopDivide.pc = "first"
    /\ Len(stack) < DepthCap
    /\ LET d == Top.divisions
           caller == [Top EXCEPT !.divisions = [d EXCEPT ![Len(d)].pc = "for"],
                                 !.children = Append(@, FullDivision(TopDivide)),
                                 !.origins = Append(@, TopDivide.omissions)]
       IN stack' = Append(SetTop(caller),
                          DfsFrame(FullDivision(TopDivide), ChildComponents(Top)))
    /\ UNCHANGED <<inputs, mode, yielded, calls, pulls, heap, yieldedRefs, outside>>

\* divide, nd.ts 79-95: the call, resumed, makes its set if it has not yet,
\* and runs one iteration of the loop over the components left in it.  Each
\* local of the iteration is bound to its one value in turn.
DivideOmit ==
    /\ InDivide /\ TopDivide.pc = "for"
    /\ ~Throws("predicate", calls.predicate, 1)
    /\ \E f \in {TopDivide} :
       \E resumed \in {Resumed(heap, f)} :
       \E _components \in {resumed.ref} :
       \E remaining \in {Remaining(resumed.heap[_components], f.i)} :
         /\ remaining # <<>>
         /\ \E i \in {Head(remaining)} :
            \E deleted \in {[resumed.heap EXCEPT
                                ![_components] = RecursionComponents(@)]} :
            \E omitted \in {vectorWith(deleted, f.forward, i, deleted[f.mid][i])} :
            \E counter \in {vectorWith(omitted.heap, f.mid, i,
                                        omitted.heap[f.backward][i])} :
            \E loop \in {[f EXCEPT !._components = _components, !.i = i]} :
              LET d == Top.divisions
                  pruned == Prunes(omitted.heap[omitted.ref], f.result)
                  after == [d EXCEPT ![Len(d)] = loop]
                  recursion == [DivideFrame(omitted.ref, f.backward, counter.ref,
                                            f.result, RecursionSet(loop))
                                EXCEPT !.omissions = Append(f.omissions, i)]
              IN /\ heap' = IF pruned THEN omitted.heap ELSE counter.heap
                 /\ stack' = SetTop([Top EXCEPT
                                !.divisions = IF pruned THEN after
                                              ELSE Append(after, recursion),
                                !.evaluated = Append(@,
                                    [omissions |-> Append(f.omissions, i),
                                     same |-> Predicate(omitted.heap[omitted.ref])
                                                 = f.result])])
    /\ calls' = [calls EXCEPT !.predicate = @ + 1]
    /\ UNCHANGED <<inputs, mode, yielded, pulls, yieldedRefs, outside>>

\* divide, nd.ts 79-97: the call, resumed, makes its set if it has not yet;
\* no component is left for the loop, and the call returns
DivideReturn ==
    /\ InDivide /\ TopDivide.pc = "for"
    /\ LET resumed == Resumed(heap, TopDivide)
       IN /\ Remaining(resumed.heap[resumed.ref], TopDivide.i) = <<>>
          /\ heap' = resumed.heap
    /\ stack' = SetTop([Top EXCEPT !.divisions = SubSeq(@, 1, Len(@) - 1)])
    /\ UNCHANGED <<inputs, mode, yielded, calls, pulls, yieldedRefs, outside>>

\* dfsBinarySearch returns: after its yield (nd.ts 114) or when divisions is
\* exhausted (nd.ts 125-128)
DfsReturn ==
    /\ mode = "running" /\ stack # <<>>
    /\ \/ Top.pc = "return"
       \/ Top.pc = "loop" /\ Top.divisions = <<>>
    /\ stack' = SubSeq(stack, 1, Len(stack) - 1)
    /\ UNCHANGED <<inputs, mode, yielded, calls, pulls, heap, yieldedRefs, outside>>

\* The outermost dfsBinarySearch has returned: next() reports done
Complete ==
    /\ mode = "running" /\ stack = <<>>
    /\ mode' = "done"
    /\ UNCHANGED <<inputs, stack, yielded, calls, pulls, heap, yieldedRefs, outside>>

Next ==
    \/ CallThrows
    \/ CallReturns
    \/ Pull
    \/ DfsShouldContinue
    \/ DfsYield
    \/ DfsDivide
    \/ DivideYieldFull
    \/ DivideOmit
    \/ DivideReturn
    \/ DfsReturn
    \/ Complete

\* Any run of ndBinarySearch on a monotone predicate
Spec == Init /\ [][Next]_vars

\* The caller turns from one generator object to the other.  It can do so
\* whenever no pull is in progress: before a call, between two pulls, after
\* completion or a throw.  Arrays the two calls share are the same objects
\* for both; every other object belongs to the call that made it.
Switch ==
    /\ other.mode # "none"
    /\ mode # "running"
    /\ other' = Parked([alwaysEnd |-> alwaysEnd, neverEnd |-> neverEnd,
                        predicate |-> predicate, midpoint |-> midpoint,
                        shouldContinue |-> shouldContinue],
                       other.shared, heap, mode, stack, yielded, yieldedRefs,
                       calls, pulls)
    /\ alwaysEnd' = other.alwaysEnd
    /\ neverEnd' = other.neverEnd
    /\ predicate' = other.predicate
    /\ midpoint' = other.midpoint
    /\ shouldContinue' = other.shouldContinue
    /\ heap' = IF other.shared
               THEN SubSeq(heap, 1, 2) \o SubSeq(other.heap, 3, Len(other.heap))
               ELSE other.heap
    /\ mode' = other.mode
    /\ stack' = other.stack
    /\ yielded' = other.yielded
    /\ yieldedRefs' = other.yieldedRefs
    /\ calls' = other.calls
    /\ pulls' = other.pulls
    /\ UNCHANGED <<args, returned, fault, caught>>

NextTwo == Next \/ Switch

\* Two generator objects pulled in any interleaving
SpecTwo == InitTwo /\ [][NextTwo]_vars

----------------------------------------------------------------------------
(* The caller's functions throw *)

\* The errors a function of the caller throws
CallerErrors == {"caller error 1", "caller error 2"}

\* A try around the body that ends the sequence when something is thrown
PropagateSwallowed(error) == [mode |-> "done", caught |-> NoError]

\* nd.ts 67-128 has no try: what a function of the caller throws leaves
\* divide, dfsBinarySearch and the yield* and for..of between them as it is,
\* and the caller of next() catches it
Propagate(error) == [mode |-> "failed", caught |-> error]

\* An exception leaves every call of the generator body; the generator is
\* finished
Fails(error) ==
    /\ mode' = Propagate(error).mode
    /\ caught' = Propagate(error).caught
    /\ stack' = <<>>
    /\ UNCHANGED <<inputs, yielded, pulls, heap, yieldedRefs, other, args, returned>>

\* createShouldContinue, nd.ts 34-37: a continuation function throws; the
\* components before it in the set have had theirs called
ShouldContinueThrows ==
    /\ mode = "running" /\ stack # <<>> /\ Top.pc = "start"
    /\ Throws("shouldContinue", calls.shouldContinue, Len(heap[Top.components]))
    /\ calls' = [calls EXCEPT
                   !.shouldContinue = fault.at,
                   !.latest = [shouldContinue |->
                                   Range(SubSeq(heap[Top.components], 1,
                                                fault.at - calls.shouldContinue)),
                               midpoint |-> {},
                               depth |-> Len(stack)]]
    /\ Fails(fault.error)

\* createMidpoint, nd.ts 48-51: a midpoint function throws; the active
\* components before it have had theirs called, and predicate is not called
MidpointThrows ==
    /\ mode = "running" /\ stack # <<>> /\ Top.pc = "mid"
    /\ Throws("midpoint", calls.midpoint, Len(heap[Top._components]))
    /\ calls' = [calls EXCEPT
                   !.midpoint = fault.at,
                   !.latest = [shouldContinue |-> {},
                               midpoint |->
                                   Range(SubSeq(heap[Top._components], 1,
                                                fault.at - calls.midpoint)),
                               depth |-> Len(stack)]]
    /\ Fails(fault.error)

\* dfsBinarySearch, nd.ts 117-118: predicate(mid) throws
DfsPredicateThrows ==
    /\ mode = "running" /\ stack # <<>> /\ Top.pc = "mid"
    /\ ~Throws("midpoint", calls.midpoint, Len(heap[Top._components]))
    /\ Throws("predicate", calls.predicate, 1)
    /\ calls' = [calls EXCEPT
                   !.midpoint = @ + Len(heap[Top._components]),
                   !.predicate = fault.at,
                   !.latest = [shouldContinue |-> {},
                               midpoint |-> Range(heap[Top._components]),
                               depth |-> Len(stack)]]
    /\ Fails(fault.error)

\* divide, nd.ts 85-86: predicate(omitted) throws
DividePredicateThrows ==
    /\ InDivide /\ TopDivide.pc = "for"
    /\ LET resumed == Resumed(heap, TopDivide)
       IN Remaining(resumed.heap[resumed.ref], TopDivide.i) # <<>>
    /\ Throws("predicate", calls.predicate, 1)
    /\ calls' = [calls EXCEPT !.predicate = fault.at]
    /\ Fails(fault.error)

\* The calls of the tests and the README, with functions that do not throw or
\* with one of them throwing at one of its first calls
InitFaulty ==
    /\ \E call \in DocumentedCalls :
         /\ alwaysEnd = call.alwaysEnd
         /\ neverEnd = call.neverEnd
         /\ predicate = call.predicate
         /\ midpoint = call.midpoint
         /\ shouldContinue = call.shouldContinue
    /\ \/ fault = NoFault
       \/ \E fn \in {"predicate", "midpoint", "shouldContinue"},
             at \in 1..MaxFaultAt, error \in CallerErrors :
             fault = [fn |-> fn, at |-> at, error |-> error]
    /\ BeforeCall
    /\ other = NoOther
    /\ args = NoArgs
    /\ returned = NotReturned

NextFaulty ==
    \/ Next
    \/ ShouldContinueThrows
    \/ MidpointThrows
    \/ DfsPredicateThrows
    \/ DividePredicateThrows

\* The runs in which a function of the caller may throw
SpecFaulty == InitFaulty /\ [][NextFaulty]_vars

----------------------------------------------------------------------------
(* The search run on its own, from the call to completion *)

RECURSIVE Flatten(_)
Flatten(seqs) == IF seqs = <<>> THEN <<>> ELSE Head(seqs) \o Flatten(Tail(seqs))

\* divide (nd.ts 67-99) run to its end: the divisions it yields, in order
RECURSIVE divideAlone(_, _, _, _, _)
divideAlone(forward, backward, mid, result, components) ==
    LET RECURSIVE loop(_)
        loop(_components) ==
            IF _components = <<>> THEN <<>>
            ELSE LET i == Head(_components)
                     omitted == [forward EXCEPT ![i] = mid[i]]
                     counter == [mid EXCEPT ![i] = backward[i]]
                 IN (IF Prunes(omitted, result) THEN <<>>
                     ELSE divideAlone(omitted, backward, counter, result,
                                      RecursionComponents(_components)))
                    \o loop(Tail(_components))
    IN <<FullDivision([forward |-> forward, mid |-> mid, result |-> result])>>
           \o loop(components)

\* dfsBinarySearch (nd.ts 101-131) run to its end: the vectors it yields, in
\* order
RECURSIVE dfsBinarySearchAlone(_, _)
dfsBinarySearchAlone(division, components) ==
    LET _components == createShouldContinue(division, components)
    IN IF _components = <<>> THEN <<division.always>>
       ELSE LET mid == createMidpoint(division, _components)
                result == Predicate(mid)
                divisions == divideAlone(Forward(division, result),
                                         Backward(division, result),
                                         mid, result, _components)
                frame == [components |-> components, _components |-> _components]
            IN Flatten([k \in 1..Len(divisions) |->
                          dfsBinarySearchAlone(divisions[k], ChildComponents(frame))])

\* ndBinarySearch (nd.ts 151-173) consumed on its own to the end
ndBinarySearchAlone ==
    IF LengthMismatch THEN <<>>
    ELSE dfsBinarySearchAlone([always |-> alwaysEnd, never |-> neverEnd],
                              [i \in 1..Len(alwaysEnd) |-> i])

\* Calls on boxes of one or two components in which each continuation
\* function is one that converges or one that never returns false
InitStuck ==
    /\ \E D, lc \in 1..2 :
         /\ \E mk \in MidKinds : midpoint = [i \in 1..D |-> mk]
         /\ shouldContinue \in [1..lc -> ContKinds \cup StuckContKinds]
         /\ alwaysEnd = Origin(D)
         /\ neverEnd \in [1..D -> 0..MaxStuck]
         /\ Manhattan(alwaysEnd, neverEnd) <= MaxStuck
         /\ predicate \in MonotonePredicates(alwaysEnd, neverEnd)
    /\ fault = NoFault
    /\ BeforeCall
    /\ other = NoOther
    /\ args = NoArgs
    /\ returned = NotReturned

\* The runs in which a component may never converge
SpecStuck == InitStuck /\ [][Next]_vars

\* The runs of test/nd.test.ts
SpecTest == InitTest /\ [][Next]_vars

\* The runs with the floor midpoint
InitFloor == Init /\ \A i \in 1..Len(midpoint) : midpoint[i] = "floor"

\* The generator body runs to its next yield without interruption, and the
\* caller keeps pulling
FairSpec == InitFloor /\ [][Next]_vars /\ WF_vars(Next)

----------------------------------------------------------------------------
(* The scalar search, index.ts *)

\* The while loop returning never in place of always
RECURSIVE ScalarLoopReturnsNever(_, _, _, _, _)
ScalarLoopReturnsNever(always, never, pred, mid, cont) ==
    IF ContFn(cont, always, never)
    THEN LET middle == MidFn(mid, always, never)
         IN IF middle \in pred
            THEN ScalarLoopReturnsNever(middle, never, pred, mid, cont)
            ELSE ScalarLoopReturnsNever(always, middle, pred, mid, cont)
    ELSE never

\* The while loop of binarySearchGeneralized; pred is the set of values on
\* which the scalar predicate is true
RECURSIVE ScalarLoop(_, _, _, _, _)
ScalarLoop(always, never, pred, mid, cont) ==
    IF ContFn(cont, always, never)
    THEN LET middle == MidFn(mid, always, never)
         IN IF middle \in pred
            THEN ScalarLoop(middle, never, pred, mid, cont)
            ELSE ScalarLoop(always, middle, pred, mid, cont)
    ELSE always

\* binarySearchGeneralized: the value returned, or the RangeError thrown
binarySearchGeneralized(alwaysEnd_, neverEnd_, pred, mid, cont, safety) ==
    IF safety = "check" /\ alwaysEnd_ \notin pred
    THEN [error |-> "alwaysEnd must satisfy the condition", value |-> alwaysEnd_]
    ELSE IF safety = "check" /\ neverEnd_ \in pred
    THEN [error |-> "neverEnd must not satisfy the condition", value |-> alwaysEnd_]
    ELSE [error |-> "", value |-> ScalarLoop(alwaysEnd_, neverEnd_, pred, mid, cont)]

\* The while loop of binarySearch (index.ts 191-197) with the midpoint of
\* binarySearchInteger, Math.floor(low / 2 + high / 2): the two halves and
\* their sum are exact, so it is the floor of (low + high) / 2
RECURSIVE binarySearchLoop(_, _, _, _, _)
binarySearchLoop(low, high, pred, epsilon, alwaysIsLower) ==
    IF high - low > epsilon
    THEN LET middle == (low + high) \div 2
         IN IF (middle \in pred) = alwaysIsLower
            THEN binarySearchLoop(middle, high, pred, epsilon, alwaysIsLower)
            ELSE binarySearchLoop(low, middle, pred, epsilon, alwaysIsLower)
    ELSE IF alwaysIsLower THEN low ELSE high

\* binarySearch (index.ts 121-198) on integers, safety "check" or "nocheck":
\* the value returned, or the RangeError thrown
binarySearch(alwaysEnd_, neverEnd_, pred, epsilon, safety) ==
    LET alwaysIsLower == alwaysEnd_ < neverEnd_
        low == IF alwaysIsLower THEN alwaysEnd_ ELSE neverEnd_
        high == IF alwaysIsLower THEN neverEnd_ ELSE alwaysEnd_
    IN IF safety = "check" /\ alwaysEnd_ \notin pred
       THEN [error |-> "alwaysEnd must satisfy the condition", value |-> alwaysEnd_]
       ELSE IF safety = "check" /\ neverEnd_ \in pred
       THEN [error |-> "neverEnd must not satisfy the condition", value |-> alwaysEnd_]
       ELSE IF safety = "check" /\ epsilon <= 0
       THEN [error |-> "epsilon must be positive", value |-> alwaysEnd_]
       ELSE IF safety = "check" /\ high - low < epsilon
       THEN [error |-> "alwaysEnd and neverEnd must be different within the epsilon range",
             value |-> alwaysEnd_]
       ELSE [error |-> "",
             value |-> binarySearchLoop(low, high, pred, epsilon, alwaysIsLower)]

\* binarySearchInteger (index.ts 216-247); its endpoints here are integers
binarySearchInteger(alwaysEnd_, neverEnd_, pred, safety) ==
    binarySearch(alwaysEnd_, neverEnd_, pred, 1, safety)

\* _binarySearchArrayInsertion without the two corrections after the search
_binarySearchArrayInsertionUncorrected(findLast, sortedArray, target) ==
    LET length == Len(sortedArray)
        isAsc == sortedArray[1] < sortedArray[length]
        pred == IF isAsc = findLast
                THEN {index \in 0..(length - 1) : sortedArray[index + 1] <= target}
                ELSE {index \in 0..(length - 1) : sortedArray[index + 1] >= target}
    IN binarySearchInteger(IF findLast THEN 0 ELSE length - 1,
                           IF findLast THEN length - 1 ELSE 0, pred, "nocheck").value

\* _binarySearchArrayInsertion (index.ts 410-451) without compareFn.  The
\* element at index i of the source is sortedArray[i + 1]; the elements are
\* numbers, compared by <, <=, >= and ===.
_binarySearchArrayInsertion(findLast, sortedArray, target) ==
    LET length == Len(sortedArray)
        alwaysEnd_ == IF findLast THEN 0 ELSE length - 1
        neverEnd_ == IF findLast THEN length - 1 ELSE 0
        notFound == IF findLast THEN -1 ELSE length
        nextToNeverEnd == IF findLast THEN length - 2 ELSE 1
        isAsc == sortedArray[1] < sortedArray[length]
        pred == IF isAsc = findLast
                THEN {index \in 0..(length - 1) : sortedArray[index + 1] <= target}
                ELSE {index \in 0..(length - 1) : sortedArray[index + 1] >= target}
        index == binarySearchInteger(alwaysEnd_, neverEnd_, pred, "nocheck").value
    IN IF index = alwaysEnd_ /\ alwaysEnd_ \notin pred THEN notFound
       ELSE IF index = nextToNeverEnd /\ neverEnd_ \in pred THEN neverEnd_
       ELSE index

\* _binarySearchArrayFindIndex without the comparison of the element found
\* with the target
_binarySearchArrayFindIndexNearest(findLast, sortedArray, target) ==
    IF Len(sortedArray) = 0 THEN -1
    ELSE IF Len(sortedArray) = 1
    THEN (IF sortedArray[1] = target THEN 0 ELSE -1)
    ELSE LET index == _binarySearchArrayInsertion(findLast, sortedArray, target)
         IN IF index = -1 \/ index = Len(sortedArray) THEN -1 ELSE index

\* _binarySearchArrayFindIndex (index.ts 456-486) without compareFn
_binarySearchArrayFindIndex(findLast, sortedArray, target) ==
    IF Len(sortedArray) = 0 THEN -1
    ELSE IF Len(sortedArray) = 1
    THEN (IF sortedArray[1] = target THEN 0 ELSE -1)
    ELSE LET index == _binarySearchArrayInsertion(findLast, sortedArray, target)
         IN IF index = -1 \/ index = Len(sortedArray) THEN -1
            ELSE IF sortedArray[index + 1] # target THEN -1
            ELSE index

\* binarySearchArray (index.ts 592-598)
binarySearchArray(sortedArray, target) ==
    _binarySearchArrayFindIndex(FALSE, sortedArray, target)

\* binarySearchArrayLast (index.ts 688-694)
binarySearchArrayLast(sortedArray, target) ==
    _binarySearchArrayFindIndex(TRUE, sortedArray, target)

\* binarySearchArrayInsertionLeft (index.ts 839-866); order is "asc", "desc"
\* or "omitted"
binarySearchArrayInsertionLeft(sortedArray, target, order) ==
    IF Len(sortedArray) = 0 THEN [error |-> "", value |-> 0]
    ELSE IF Len(sortedArray) = 1
    THEN (IF order = "asc"
          THEN [error |-> "", value |-> IF target > sortedArray[1] THEN 1 ELSE 0]
          ELSE IF order = "desc"
          THEN [error |-> "", value |-> IF target < sortedArray[1] THEN 1 ELSE 0]
          ELSE [error |-> "order must be specified for single-element arrays",
                value |-> 0])
    ELSE [error |-> "", value |-> _binarySearchArrayInsertion(FALSE, sortedArray, target)]

\* binarySearchArrayInsertionRight (index.ts 1016-1045)
binarySearchArrayInsertionRight(sortedArray, target, order) ==
    IF Len(sortedArray) = 0 THEN [error |-> "", value |-> 0]
    ELSE IF Len(sortedArray) = 1
    THEN (IF order = "asc"
          THEN [error |-> "", value |-> IF target >= sortedArray[1] THEN 1 ELSE 0]
          ELSE IF order = "desc"
          THEN [error |-> "", value |-> IF target <= sortedArray[1] THEN 1 ELSE 0]
          ELSE [error |-> "order must be specified for single-element arrays",
                value |-> 0])
    ELSE [error |-> "",
          value |-> _binarySearchArrayInsertion(TRUE, sortedArray, target) + 1]

\* The calls of index.ts: the arguments

Ascending(s) == \A i \in 1..(Len(s) - 1) : s[i] <= s[i + 1]

Descending(s) == \A i \in 1..(Len(s) - 1) : s[i] >= s[i + 1]

\* The arrays sorted in ascending or in descending order, duplicates allowed
SortedArrays ==
    {s \in UNION {[1..len -> 1..MaxValue] : len \in 0..MaxLen} :
        Ascending(s) \/ Descending(s)}

Targets == 0..(MaxValue + 1)

\* x lies between a and b, whichever is the larger
Between(x, a, b) == (a <= x /\ x <= b) \/ (b <= x /\ x <= a)

\* The predicates on the integers from a to n that are monotone from a to n:
\* true from a up to some value and false from there to n, true nowhere, or
\* true everywhere
ScalarPredicates(a, n) ==
    {{}} \cup {{x \in -MaxScalar..MaxScalar : Between(x, a, t)}
               : t \in {t \in -MaxScalar..MaxScalar : Between(t, a, n)}}

ArrayCalls ==
    {[fn |-> f, sortedArray |-> s, target |-> t, order |-> "omitted"] :
        f \in {"binarySearchArray", "binarySearchArrayLast"},
        s \in SortedArrays, t \in Targets}
    \cup
    {[fn |-> f, sortedArray |-> s, target |-> t, order |-> o] :
        f \in {"binarySearchArrayInsertionLeft", "binarySearchArrayInsertionRight"},
        s \in SortedArrays, t \in Targets, o \in {"asc", "desc", "omitted"}}

ScalarCalls ==
    UNION {{[fn |-> "binarySearchGeneralized", alwaysEnd |-> a, neverEnd |-> n,
             predicate |-> p, midpoint |-> mk, shouldContinue |-> ck, safety |-> sf] :
               p \in ScalarPredicates(a, n), mk \in MidKinds,
               ck \in ScalarContKinds, sf \in {"check", "nocheck"}}
           : a, n \in -MaxScalar..MaxScalar}

\* One call of a function of index.ts, not made yet
InitIndex ==
    /\ args \in ArrayCalls \cup ScalarCalls
    /\ returned = NotReturned
    /\ alwaysEnd = <<>>
    /\ neverEnd = <<>>
    /\ predicate = {}
    /\ midpoint = <<>>
    /\ shouldContinue = <<>>
    /\ fault = NoFault
    /\ BeforeCall
    /\ other = NoOther

Returns(result) ==
    /\ ~returned.returned
    /\ returned' = [returned |-> TRUE, error |-> result.error, value |-> result.value]
    /\ UNCHANGED <<inputs, mode, stack, yielded, calls, pulls, heap, yieldedRefs,
                   other, args, caught>>

CallBinarySearchGeneralized ==
    /\ args.fn = "binarySearchGeneralized"
    /\ Returns(binarySearchGeneralized(args.alwaysEnd, args.neverEnd, args.predicate,
                                       args.midpoint, args.shouldContinue, args.safety))

CallBinarySearchArray ==
    /\ args.fn = "binarySearchArray"
    /\ Returns([error |-> "", value |-> binarySearchArray(args.sortedArray, args.target)])

CallBinarySearchArrayLast ==
    /\ args.fn = "binarySearchArrayLast"
    /\ Returns([error |-> "",
                value |-> binarySearchArrayLast(args.sortedArray, args.target)])

CallBinarySearchArrayInsertionLeft ==
    /\ args.fn = "binarySearchArrayInsertionLeft"
    /\ Returns(binarySearchArrayInsertionLeft(args.sortedArray, args.target, args.order))

CallBinarySearchArrayInsertionRight ==
    /\ args.fn = "binarySearchArrayInsertionRight"
    /\ Returns(binarySearchArrayInsertionRight(args.sortedArray, args.target, args.order))

NextIndex ==
    \/ CallBinarySearchGeneralized
    \/ CallBinarySearchArray
    \/ CallBinarySearchArrayLast
    \/ CallBinarySearchArrayInsertionLeft
    \/ CallBinarySearchArrayInsertionRight

\* Any call of the scalar search or of an array search
SpecIndex == InitIndex /\ [][NextIndex]_vars

----------------------------------------------------------------------------
(* The settings the properties are stated in *)

SameLengths ==
    /\ Len(alwaysEnd) = Len(neverEnd)
    /\ Len(alwaysEnd) = Len(midpoint)
    /\ Len(alwaysEnd) = Len(shouldContinue)

\* predicate is monotone over the box: true at a point, it is true at the
\* points nearer to alwaysEnd
Monotone ==
    \A v \in predicate : \A i \in 1..Len(v) :
        v[i] > alwaysEnd[i] => [v EXCEPT ![i] = v[i] - 1] \in predicate

\* The caller's preconditions
Preconditions ==
    /\ SameLengths
    /\ Leq(alwaysEnd, neverEnd)
    /\ Monotone
    /\ Predicate(alwaysEnd)
    /\ ~Predicate(neverEnd)

\* Every midpoint function returns a value between its two arguments
MidpointsBetween ==
    \A i \in 1..Len(midpoint) :
        \A x, y \in alwaysEnd[i]..neverEnd[i] :
            x <= y => (x <= MidFn(midpoint[i], x, y) /\ MidFn(midpoint[i], x, y) <= y)

\* The integer-grid setting: floor midpoint, continue while never - always > 1
IntegerGrid ==
    /\ Preconditions
    /\ \A i \in 1..Len(midpoint) : midpoint[i] = "floor"
    /\ \A i \in 1..Len(shouldContinue) : shouldContinue[i] = "gap"

Yielded == Range(yielded)

\* The grid points just inside the frontier
BorderPoints ==
    {v \in predicate : /\ \A i \in 1..Len(v) : v[i] < neverEnd[i]
                       /\ ~Predicate(PlusOne(v))}

----------------------------------------------------------------------------
(* Properties *)

\* C1: a call whose four arrays do not all have the same length throws from
\* the call itself, before any element is pulled and before predicate, a
\* midpoint or a continuation function is called; a call whose four lengths
\* are equal does not throw.
C1_LengthMismatchThrows ==
    /\ (mode # "idle" /\ ~SameLengths) =>
          /\ mode = "thrown"
          /\ pulls = 0 /\ calls = NoCalls /\ yielded = <<>>
    /\ SameLengths => mode # "thrown"

C1_Witness ==
    /\ mode = "thrown"
    /\ Len(alwaysEnd) = Len(neverEnd) /\ Len(neverEnd) = Len(midpoint)
    /\ Len(midpoint) # Len(shouldContinue)

\* C2: under the caller's preconditions and with midpoints between their
\* arguments, predicate is true at every yielded vector.
C2_Containment ==
    \/ \A k \in 1..Len(yielded) : Predicate(yielded[k])
    \/ ~(Preconditions /\ MidpointsBetween)

C2_Witness ==
    /\ mode = "done" /\ Preconditions /\ Len(yielded) >= 3
    /\ midpoint[1] = "ceil"
    /\ \A k \in 1..Len(yielded) : yielded[k] # alwaysEnd

\* C3: in the integer-grid setting with alwaysEnd[i] < neverEnd[i] for all i,
\* a completed run has yielded every grid point just inside the frontier.
C3_Completeness ==
    (/\ mode = "done" /\ IntegerGrid
     /\ \A i \in 1..Len(alwaysEnd) : alwaysEnd[i] < neverEnd[i])
        => BorderPoints \subseteq Yielded

C3_Witness ==
    /\ mode = "done" /\ IntegerGrid
    /\ Len(alwaysEnd) = 3
    /\ \A i \in 1..Len(alwaysEnd) : alwaysEnd[i] < neverEnd[i]
    /\ Cardinality(BorderPoints) >= 5

\* C4: in the integer-grid setting no vector is yielded twice in one run.
C4_Uniqueness ==
    \/ \A j, k \in 1..Len(yielded) : j # k => yielded[j] # yielded[k]
    \/ ~IntegerGrid

C4_Witness ==
    /\ mode = "done" /\ IntegerGrid /\ Len(alwaysEnd) = 3 /\ Len(yielded) >= 5

\* C5: in the integer-grid setting predicate is false at v + (1,...,1) for
\* every yielded vector v.
C5_Adjacency ==
    \/ \A k \in 1..Len(yielded) : ~Predicate(PlusOne(yielded[k]))
    \/ ~IntegerGrid

C5_Witness ==
    /\ mode = "done" /\ IntegerGrid /\ Len(yielded) >= 4
    /\ \E i \in 1..Len(alwaysEnd) : alwaysEnd[i] = neverEnd[i]

\* test/nd.test.ts 35-70
SphereExpected ==
    {<<0, 0, 3>>, <<0, 1, 3>>, <<0, 2, 2>>, <<0, 2, 3>>, <<0, 3, 0>>, <<0, 3, 1>>,
     <<0, 3, 2>>, <<1, 0, 3>>, <<1, 1, 2>>, <<1, 1, 3>>, <<1, 2, 1>>, <<1, 2, 2>>,
     <<1, 2, 3>>, <<1, 3, 0>>, <<1, 3, 1>>, <<1, 3, 2>>, <<2, 0, 2>>, <<2, 0, 3>>,
     <<2, 1, 1>>, <<2, 1, 2>>, <<2, 1, 3>>, <<2, 2, 0>>, <<2, 2, 1>>, <<2, 2, 2>>,
     <<2, 3, 0>>, <<2, 3, 1>>, <<3, 0, 0>>, <<3, 0, 1>>, <<3, 0, 2>>, <<3, 1, 0>>,
     <<3, 1, 1>>, <<3, 1, 2>>, <<3, 2, 0>>, <<3, 2, 1>>}

SphereScenario ==
    /\ alwaysEnd = SphereAlwaysEnd /\ neverEnd = SphereNeverEnd
    /\ predicate = SpherePredicate
    /\ midpoint = <<"floor", "floor", "floor">>
    /\ shouldContinue = <<"gap", "gap", "gap">>

\* C6: the completed run of the sphere scenario has yielded 34 vectors, and
\* as a set exactly the 34 expected ones.
C6_SphereScenario ==
    (mode = "done" /\ SphereScenario) =>
        /\ Len(yielded) = 34
        /\ Yielded = SphereExpected

C6_Witness == mode = "done" /\ SphereScenario /\ Len(yielded) > 0

\* C7: in the integer-grid setting every pull in progress returns (with a
\* vector or with completion), and the sequence eventually reports completion.
C7_Termination ==
    /\ (IntegerGrid /\ mode = "running") ~> (mode = "suspended" \/ mode = "done")
    /\ IntegerGrid ~> (mode = "done")

C7_Witness ==
    /\ mode = "done" /\ IntegerGrid /\ Len(alwaysEnd) = 3 /\ pulls >= 4
    /\ calls.predicate >= 6

\* C8: predicate, midpoint and continuation functions are called only while a
\* pull is in progress: none before the first pull, none between the delivery
\* of a vector and the next pull, and each pull delivers at most one vector.
C8_Laziness ==
    /\ [](pulls = 0 => calls = NoCalls)
    /\ [](Len(yielded) <= pulls)
    /\ [][calls' # calls => (mode = "running" /\ mode' = "running")]_vars
    /\ [][Len(yielded') # Len(yielded) =>
            (Len(yielded') = Len(yielded) + 1 /\ mode = "running" /\ mode' = "suspended")]_vars

C8_Witness ==
    /\ mode = "suspended" /\ Len(yielded) = 2 /\ pulls = 2
    /\ calls.predicate >= 2 /\ stack # <<>>

\* The scalar predicate x => predicate([x])
ScalarPredicate == {x \in alwaysEnd[1]..neverEnd[1] : Predicate(<<x>>)}

\* C9: with one dimension, predicate([a]) true and predicate([n]) false, the
\* completed run has yielded exactly one vector [r], and r is what
\* binarySearchGeneralized returns for the same functions.
C9_OneDimension ==
    (/\ mode = "done" /\ SameLengths /\ Len(alwaysEnd) = 1
     /\ Predicate(alwaysEnd) /\ ~Predicate(neverEnd)) =>
        LET r == binarySearchGeneralized(alwaysEnd[1], neverEnd[1], ScalarPredicate,
                                         midpoint[1], shouldContinue[1], "check")
        IN r.error = "" /\ yielded = << <<r.value>> >>

C9_Witness ==
    /\ mode = "done" /\ Len(alwaysEnd) = 1 /\ SameLengths
    /\ neverEnd[1] - alwaysEnd[1] >= 5
    /\ Len(yielded) = 1 /\ yielded[1][1] = alwaysEnd[1] + 3

HasNeighbour(v) == \E w \in Yielded : Manhattan(v, w) = 1

C11_Independence ==
    /\ mode = "suspended" =>
          /\ pulls <= Len(ndBinarySearchAlone)
          /\ yielded = SubSeq(ndBinarySearchAlone, 1, pulls)
    /\ mode = "done" => yielded = ndBinarySearchAlone

C11_Witness ==
    /\ mode = "done" /\ Len(yielded) >= 7
    /\ other.mode = "suspended" /\ other.shared
    /\ other.pulls >= 3 /\ Len(other.yielded) = other.pulls
    /\ other.stack # <<>>

\* C12: at every point of a run the two arrays the caller passed as alwaysEnd
\* and neverEnd hold the coordinates they had at the call, and every vector
\* yielded so far holds the coordinates it had when it was yielded.
C12_NoMutation ==
    /\ heap[1] = alwaysEnd
    /\ heap[2] = neverEnd
    /\ \A k \in 1..Len(yieldedRefs) : heap[yieldedRefs[k]] = yielded[k]

C12_Witness ==
    /\ mode = "done" /\ Preconditions /\ Len(yielded) >= 3 /\ Len(heap) >= 10
    /\ \E k \in 1..Len(yieldedRefs) : yieldedRefs[k] = CallerDivision.always

\* The components a dfsBinarySearch call in progress has deactivated: those it
\* received whose continuation function returned false
Deactivated(frame) ==
    IF frame.pc = "start" THEN {}
    ELSE Range(heap[frame.components]) \ Range(heap[frame._components])

\* C13: once the continuation function of a component has returned false in
\* a dfsBinarySearch call, its midpoint function is not called by that call
\* or a call nested in it, and its continuation function is not called by a
\* call nested in it.
C13_Deactivation ==
    \A k \in 1..Min(Len(stack), calls.latest.depth) :
        LET dead == Deactivated(stack[k])
        IN /\ dead \cap calls.latest.midpoint = {}
           /\ k < calls.latest.depth => dead \cap calls.latest.shouldContinue = {}

C13_Witness ==
    /\ Len(stack) >= 3 /\ Preconditions
    /\ Deactivated(stack[1]) = {}
    /\ Deactivated(stack[2]) # {}
    /\ calls.latest.depth = 3 /\ calls.latest.shouldContinue # {}

\* C14: a call with four arrays of one length does not throw when predicate
\* is false at alwaysEnd or true at neverEnd; the run goes on from the
\* endpoints as given.
C14_NoEndpointValidation ==
    (SameLengths /\ (~Predicate(alwaysEnd) \/ Predicate(neverEnd))) =>
        mode # "thrown"

C14_Witness ==
    /\ mode = "done" /\ SameLengths /\ ~Predicate(alwaysEnd)
    /\ Len(yielded) >= 1 /\ calls.predicate >= 4

\* The call made is a scalar search of the kind of test/index.test.ts 660-670:
\* default safety, floor midpoint, continuation |a - n| > 1, a predicate
\* monotone from alwaysEnd to neverEnd, true at alwaysEnd, false at neverEnd
ScalarSetting ==
    /\ args.fn = "binarySearchGeneralized"
    /\ args.safety = "check"
    /\ args.midpoint = "floor"
    /\ args.shouldContinue = "absgap"
    /\ \A x \in args.predicate : \A y \in -MaxScalar..MaxScalar :
          Between(y, args.alwaysEnd, x) => y \in args.predicate
    /\ args.alwaysEnd \in args.predicate
    /\ args.neverEnd \notin args.predicate

\* One step from alwaysEnd towards neverEnd
Toward == IF args.neverEnd > args.alwaysEnd THEN 1 ELSE -1

\* C15: in that setting, for a range in either direction,
\* binarySearchGeneralized returns a value at which predicate is true, and
\* predicate is false at the integer one step from it towards neverEnd.
C15_BoundaryOnAlwaysSide ==
    (returned.returned /\ ScalarSetting) =>
        /\ returned.error = ""
        /\ returned.value \in args.predicate
        /\ (returned.value + Toward) \notin args.predicate

C15_Witness ==
    /\ returned.returned /\ ScalarSetting
    /\ args.alwaysEnd > args.neverEnd + 4
    /\ args.alwaysEnd > 0 /\ args.neverEnd < 0
    /\ returned.value = -1

\* The indices, counted from 0, at which target occurs in the array
Occurrences == {i \in 0..(Len(args.sortedArray) - 1) : args.sortedArray[i + 1] = args.target}

Smallest(S) == CHOOSE x \in S : \A y \in S : x <= y

Largest(S) == CHOOSE x \in S : \A y \in S : x >= y

\* C16: on an array sorted in ascending or descending order, of any length,
\* binarySearchArray returns the smallest index at which target occurs and
\* binarySearchArrayLast the largest; each returns -1 exactly when target
\* does not occur.
C16_FirstAndLastIndex ==
    (returned.returned /\ args.fn \in {"binarySearchArray", "binarySearchArrayLast"}) =>
        /\ returned.error = ""
        /\ returned.value =
              IF Occurrences = {} THEN -1
              ELSE IF args.fn = "binarySearchArray" THEN Smallest(Occurrences)
              ELSE Largest(Occurrences)

C16_Witness ==
    /\ returned.returned /\ args.fn = "binarySearchArrayLast"
    /\ Len(args.sortedArray) = 4 /\ Descending(args.sortedArray)
    /\ args.sortedArray[1] > args.sortedArray[4]
    /\ Cardinality(Occurrences) = 2 /\ returned.value = 2

\* The array with target inserted so that it gets index k (counted from 0)
Inserted(k) ==
    SubSeq(args.sortedArray, 1, k) \o <<args.target>>
        \o SubSeq(args.sortedArray, k + 1, Len(args.sortedArray))

\* The call made is an insertion search
Insertion ==
    args.fn \in {"binarySearchArrayInsertionLeft", "binarySearchArrayInsertionRight"}

\* C17: on a sorted array of length 2 or more, with no order argument and no
\* comparator, the index returned keeps the array sorted in its order when
\* target is inserted there; when target occurs in the array,
\* binarySearchArrayInsertionLeft returns the index of its first occurrence
\* and binarySearchArrayInsertionRight the index after its last one.
C17_InsertionPoints ==
    (/\ returned.returned /\ Insertion
     /\ args.order = "omitted" /\ Len(args.sortedArray) >= 2) =>
        /\ returned.error = ""
        /\ returned.value \in 0..Len(args.sortedArray)
        /\ \/ Ascending(args.sortedArray) /\ Ascending(Inserted(returned.value))
           \/ Descending(args.sortedArray) /\ Descending(Inserted(returned.value))
        /\ Occurrences # {} =>
              returned.value =
                  IF args.fn = "binarySearchArrayInsertionLeft"
                  THEN Smallest(Occurrences)
                  ELSE Largest(Occurrences) + 1

C17_Witness ==
    /\ returned.returned /\ args.fn = "binarySearchArrayInsertionRight"
    /\ args.order = "omitted" /\ Len(args.sortedArray) = 4
    /\ args.sortedArray[1] > args.sortedArray[4]
    /\ Cardinality(Occurrences) = 2 /\ returned.value = 3

\* The number of elements of the array that satisfy Test
Count(Test(_)) ==
    Cardinality({i \in 1..Len(args.sortedArray) : Test(args.sortedArray[i])})

\* The insertion point for the order passed
InsertionPointFor(order) ==
    IF args.fn = "binarySearchArrayInsertionLeft"
    THEN IF order = "asc" THEN Count(LAMBDA e : e < args.target)
                          ELSE Count(LAMBDA e : e > args.target)
    ELSE IF order = "asc" THEN Count(LAMBDA e : e <= args.target)
                          ELSE Count(LAMBDA e : e >= args.target)

\* C18: when "asc" or "desc" is passed and the array, of any length, is
\* sorted in that order, the index returned is the insertion point for that
\* order: with "asc" the left insertion point is the number of elements less
\* than target, the right one the number of elements less than or equal to
\* it; with "desc" the same with greater in place of less.
C18_OrderArgument ==
    (/\ returned.returned /\ Insertion
     /\ \/ args.order = "asc" /\ Ascending(args.sortedArray)
        \/ args.order = "desc" /\ Descending(args.sortedArray)) =>
        /\ returned.error = ""
        /\ returned.value = InsertionPointFor(args.order)

\* C19: under the caller's preconditions and with midpoints between their
\* arguments, predicate is true at always and false at never for the division
\* of every dfsBinarySearch call in progress (the first division and the
\* ones divide yielded) and for every division a call has received from
\* divide.
C19_DivisionInvariant ==
    \/ \A k \in 1..Len(stack) :
          \A d \in {stack[k].division} \cup Range(stack[k].children) :
              Predicate(heap[d.always]) /\ ~Predicate(heap[d.never])
    \/ ~(Preconditions /\ MidpointsBetween)

C19_Witness ==
    /\ Preconditions /\ Len(stack) >= 3 /\ midpoint[1] = "ceil"
    /\ Len(stack[1].children) >= 3
    /\ Val(stack[3].division).always # alwaysEnd
    /\ Val(stack[3].division).never # neverEnd

\* The inside-border grid points of the division of a dfsBinarySearch call
\* that received components: predicate true at v and false at v + (1,...,1),
\* v between always and never (never excluded) in the components that are
\* active for the division, v equal to always in the others
InsideBorder(division, components) ==
    LET d == Val(division)
        active == Range(createShouldContinue(d, heap[components]))
    IN {v \in predicate :
          /\ ~Predicate(PlusOne(v))
          /\ \A i \in 1..Len(v) :
                IF i \in active THEN d.always[i] <= v[i] /\ v[i] < d.never[i]
                                ELSE v[i] = d.always[i]}

\* C20: in the integer-grid setting, when a dfsBinarySearch call with active
\* components has received every division of its divide call, each
\* inside-border grid point of its own division is an inside-border grid
\* point of one of the divisions received.
C20_SplitterCoverage ==
    (/\ IntegerGrid /\ mode = "running" /\ stack # <<>>
     /\ Top.pc = "loop" /\ Top.divisions = <<>>) =>
        InsideBorder(Top.division, Top.components) \subseteq
            UNION {InsideBorder(Top.children[j], Top._components)
                   : j \in 1..Len(Top.children)}

\* The dfsBinarySearch call that is running has received every division of
\* its divide call
DivideDone ==
    /\ mode = "running" /\ stack # <<>>
    /\ Top.pc = "loop" /\ Top.divisions = <<>>

\* The division between omitted_S and counter_S for the set S of omitted
\* components, in a dfsBinarySearch call with the given division and active
\* components: omitted_S is forward with the components in S replaced by mid,
\* counter_S is mid with the components in S replaced by backward
Unpruned(division, active) ==
    LET mid == createMidpoint(division, active)
        result == Predicate(mid)
        forward == Forward(division, result)
        backward == Backward(division, result)
        omitted(S) == [i \in 1..Len(mid) |-> IF i \in S THEN mid[i] ELSE forward[i]]
        counter(S) == [i \in 1..Len(mid) |-> IF i \in S THEN backward[i] ELSE mid[i]]
    IN [S \in SUBSET Range(active) |->
          [crosses |-> S = {} \/ Predicate(omitted(S)) # result,
           division |-> IF result THEN [always |-> counter(S), never |-> omitted(S)]
                                   ELSE [always |-> omitted(S), never |-> counter(S)]]]

\* C21: for a monotone predicate, the divisions a dfsBinarySearch call has
\* received when its divide call is over are those of the enumeration of all
\* sets S of active components without pruning: one for the empty set (the
\* full division) and one for each non-empty S on whose omitted_S predicate
\* differs from result, each the division between omitted_S and counter_S
\* oriented by result, and each received once.
C21_PrunedEqualsUnpruned ==
    DivideDone =>
        LET all == Unpruned(Val(Top.division), heap[Top._components])
            crossing == {S \in DOMAIN all : all[S].crosses}
        IN /\ {Range(Top.origins[j]) : j \in 1..Len(Top.origins)} = crossing
           /\ Len(Top.children) = Cardinality(crossing)
           /\ \A j \in 1..Len(Top.children) :
                 Val(Top.children[j]) = all[Range(Top.origins[j])].division

C21_Witness ==
    /\ DivideDone /\ Monotone
    /\ Len(heap[Top._components]) = 3
    /\ Len(Top.children) >= 4
    /\ \E j \in 1..Len(Top.origins) : Len(Top.origins[j]) = 2
    /\ \E j \in 1..Len(Top.evaluated) : Top.evaluated[j].same

\* The revision of divide that tracks the components considered so far in a
\* set done (dist, createDivide): run to its end, the divisions it yields with
\* the omissions each came from, and the omissions on which it evaluated
\* predicate, both in order
RECURSIVE divideWithDone(_, _, _, _, _, _, _)
divideWithDone(forward, backward, mid, result, components, done, omissions) ==
    LET RECURSIVE loop(_, _)
        loop(k, _done) ==
            IF k > Len(components)
            THEN [yields |-> <<>>, tests |-> <<>>]
            ELSE LET i == components[k]
                     omitted == [forward EXCEPT ![i] = mid[i]]
                     counter == [mid EXCEPT ![i] = backward[i]]
                     chain == Append(omissions, i)
                     inner == IF Prunes(omitted, result)
                              THEN [yields |-> <<>>, tests |-> <<>>]
                              ELSE divideWithDone(omitted, backward, counter, result,
                                                  components, _done \cup {i}, chain)
                     rest == loop(k + 1, _done \cup {i})
                 IN IF i \in _done THEN loop(k + 1, _done)
                    ELSE [yields |-> inner.yields \o rest.yields,
                          tests |-> <<chain>> \o inner.tests \o rest.tests]
        first == [division |-> FullDivision([forward |-> forward, mid |-> mid,
                                             result |-> result]),
                  omissions |-> omissions]
        others == loop(1, done)
    IN [yields |-> <<first>> \o others.yields, tests |-> others.tests]

\* No two elements of the sequence of omission chains are chains of the same
\* components
OncePerSubset(chains) ==
    \A a, b \in 1..Len(chains) : a # b => Range(chains[a]) # Range(chains[b])

Increasing(chain) == \A a, b \in 1..Len(chain) : a < b => chain[a] < chain[b]

\* C22: within the divide call of one dfsBinarySearch call and its recursive
\* calls, predicate is evaluated at most once for a set of omitted
\* components, no two divisions yielded come from the same set, the
\* components of every chain of omissions are in increasing order, and a
\* recursive call entered for component i only has components after i in the
\* set it receives and in the set it loops over.  The revision of divide with
\* the done set evaluates and yields the same, in the same order.
C22_EachSubsetOnce ==
    \/ stack = <<>>
    \/ /\ OncePerSubset(Top.origins)
       /\ OncePerSubset([j \in 1..Len(Top.evaluated) |-> Top.evaluated[j].omissions])
       /\ \A j \in 1..Len(Top.evaluated) : Increasing(Top.evaluated[j].omissions)
       /\ \A k \in 1..Len(Top.divisions) :
             LET f == Top.divisions[k]
                 sets == {f.components} \cup ({f._components} \ {NoRef})
             IN f.omissions # <<>> =>
                   \A c \in sets : \A j \in Range(heap[c]) :
                       j > f.omissions[Len(f.omissions)]
       /\ DivideDone =>
             LET division == Val(Top.division)
                 active == heap[Top._components]
                 mid == createMidpoint(division, active)
                 result == Predicate(mid)
                 done == divideWithDone(Forward(division, result),
                                        Backward(division, result),
                                        mid, result, active, {}, <<>>)
             IN /\ done.tests = [j \in 1..Len(Top.evaluated) |->
                                    Top.evaluated[j].omissions]
                /\ done.yields = [j \in 1..Len(Top.children) |->
                                     [division |-> Val(Top.children[j]),
                                      omissions |-> Top.origins[j]]]

C22_Witness ==
    /\ DivideDone
    /\ Len(Top.evaluated) >= 5
    /\ \E j \in 1..Len(Top.origins) : Top.origins[j] = <<1, 3>>
    /\ \E j \in 1..Len(Top.evaluated) :
          Top.evaluated[j].omissions = <<2, 3>> /\ Top.evaluated[j].same

\* The chain of omissions c goes on from the chain p
Extends(c, p) == Len(p) <= Len(c) /\ SubSeq(c, 1, Len(p)) = p

\* C23: when predicate(omitted) equals result for component i in a divide
\* call, no division is yielded for the chain of omissions of that call
\* followed by i, no divide call is made for it, and predicate is not
\* evaluated on a chain of omissions that goes on from it.
C23_Pruning ==
    \/ stack = <<>>
    \/ \A e \in Range(Top.evaluated) :
          e.same =>
             /\ \A j \in 1..Len(Top.origins) : ~Extends(Top.origins[j], e.omissions)
             /\ \A k \in 1..Len(Top.divisions) :
                   ~Extends(Top.divisions[k].omissions, e.omissions)
             /\ \A o \in Range(Top.evaluated) :
                   Extends(o.omissions, e.omissions) => o = e

C23_Witness ==
    /\ DivideDone
    /\ Len(heap[Top._components]) = 3
    /\ \E e \in Range(Top.evaluated) : e.same /\ e.omissions = <<1, 2>>
    /\ \E e \in Range(Top.evaluated) : ~e.same /\ e.omissions = <<1, 3>>

\* The components a dfsBinarySearch call received
Received(frame) == Range(heap[frame.components])

\* C24: the set of components a dfsBinarySearch call receives is a subset of
\* the set its caller received, and it holds no component that the caller
\* or a call further out has deactivated; so no such component is active in
\* it either.
C24_ActiveSetShrinks ==
    \A k \in 2..Len(stack) :
        /\ Received(stack[k]) \subseteq Received(stack[k - 1])
        /\ \A m \in 1..(k - 1) :
              /\ Deactivated(stack[m]) \cap Received(stack[k]) = {}
              /\ stack[k]._components # NoRef =>
                    Deactivated(stack[m]) \cap Range(heap[stack[k]._components]) = {}

C24_Witness ==
    /\ Len(stack) >= 3
    /\ Deactivated(stack[1]) # {}
    /\ Deactivated(stack[2]) # {}
    /\ stack[3].pc # "start"
    /\ Received(stack[3]) # {}
    /\ Received(stack[3]) # Received(stack[2])
    /\ Received(stack[2]) # Received(stack[1])

\* C25: every dfsBinarySearch call made for a division of a divide call is
\* given the very set its caller computed at nd.ts 111, and that set holds
\* what createShouldContinue returned for as long as the caller is in
\* progress: whatever the searches of the divisions received earlier have
\* deactivated, and whatever divide has deleted from its own sets.
C25_SiblingsShareActiveSet ==
    \A k \in 1..Len(stack) :
        /\ k >= 2 => stack[k].components = stack[k - 1]._components
        /\ \/ stack[k]._components = NoRef
           \/ heap[stack[k]._components] =
                 createShouldContinue(Val(stack[k].division), heap[stack[k].components])

C25_Witness ==
    /\ Len(stack) >= 2
    /\ Len(stack[1].children) >= 2
    /\ Len(stack[1].evaluated) >= 2
    /\ stack[2].pc = "mid"
    /\ Len(heap[stack[2]._components]) < Len(heap[stack[2].components])
    /\ Len(yielded) >= 2

\* The continuation function of no component of the set is true for the
\* division
NoneContinues(division, components) ==
    \A i \in components : ~ContFn(shouldContinue[i], division.always[i], division.never[i])

\* The dfsBinarySearch call that is running has no component to refine
AtTerminal ==
    /\ mode = "running" /\ stack # <<>>
    /\ NoneContinues(Val(Top.division), Received(Top))

\* C26: a dfsBinarySearch call for which the continuation function of every
\* component it received is false (a call that received no component
\* included) makes no division, yields division.always once and returns, and
\* no step of it calls predicate or a midpoint function; when that is so for
\* the first division, the run yields alwaysEnd and nothing else.
C26_TerminalState ==
    /\ [](AtTerminal => \/ Top.pc = "start"
                        \/ /\ Top.pc \in {"yield", "return"}
                           /\ Top.divisions = <<>> /\ Top.children = <<>>)
    /\ []((mode = "running" /\ stack # <<>> /\ Top.pc \in {"yield", "return"})
              => AtTerminal)
    /\ [][AtTerminal =>
             /\ calls'.predicate = calls.predicate
             /\ calls'.midpoint = calls.midpoint
             /\ Top.pc = "start" =>
                   /\ yielded' = yielded
                   /\ stack' = SetTop([Top EXCEPT !.pc = "yield",
                                                  !._components = Len(heap')])
                   /\ heap'[Len(heap')] = <<>>
             /\ Top.pc = "yield" =>
                   /\ yielded' = Append(yielded, Val(Top.division).always)
                   /\ stack' = SetTop([Top EXCEPT !.pc = "return"])
             /\ Top.pc = "return" =>
                   /\ yielded' = yielded
                   /\ stack' = SubSeq(stack, 1, Len(stack) - 1)]_vars
    /\ []((/\ mode = "done" /\ SameLengths
           /\ NoneContinues([always |-> alwaysEnd, never |-> neverEnd],
                            1..Len(alwaysEnd)))
              => /\ yielded = <<alwaysEnd>>
                 /\ calls.predicate = 0 /\ calls.midpoint = 0)

C26_Witness ==
    /\ mode = "done"
    /\ Len(alwaysEnd) = 2 /\ neverEnd = <<1, 1>>
    /\ yielded = <<alwaysEnd>>
    /\ calls.shouldContinue = 2

\* Component i of the division child lies between an end of the division
\* parent and mid: one of its two ends is that of mid, the other the one kept
Orthant(child, parent, mid, i) ==
    \/ child.always[i] = mid[i] /\ child.never[i] = parent.never[i]
    \/ child.always[i] = parent.always[i] /\ child.never[i] = mid[i]

\* C27: in every division a dfsBinarySearch call has received from divide,
\* and for every component i active in the call, the pair (always[i],
\* never[i]) is (mid[i], never[i] of the call's division) or (always[i] of
\* the call's division, mid[i]); when mid[i] is strictly between always[i]
\* and never[i] of the call's division, the component is strictly narrower in
\* the division received.
C27_ChildrenAreOrthants ==
    \/ stack = <<>>
    \/ Top.children = <<>>
    \/ \E parent \in {Val(Top.division)}, active \in {heap[Top._components]} :
       \E mid \in {createMidpoint(parent, active)} :
          \A j \in 1..Len(Top.children) : \A i \in Range(active) :
             LET child == Val(Top.children[j])
             IN /\ Orthant(child, parent, mid, i)
                /\ (parent.always[i] < mid[i] /\ mid[i] < parent.never[i]) =>
                      Abs(child.never[i] - child.always[i])
                          < Abs(parent.never[i] - parent.always[i])

C27_Witness ==
    /\ DivideDone
    /\ Len(Top.children) >= 3
    /\ LET parent == Val(Top.division)
           mid == createMidpoint(parent, heap[Top._components])
       IN \E j \in 1..Len(Top.children) : \E i, k \in Range(heap[Top._components]) :
             /\ Val(Top.children[j]).always[i] = mid[i]
             /\ Val(Top.children[j]).never[k] = mid[k]
             /\ parent.always[i] < mid[i] /\ mid[k] < parent.never[k]

\* The components that are not active in a dfsBinarySearch call that has
\* computed its active set: those it did not receive and those it deactivated
Inactive(frame) == (1..Len(midpoint)) \ Range(heap[frame._components])

\* C28: for every component j that is not active in a dfsBinarySearch call,
\* every division the call has received from divide has always[j] equal to
\* always[j] of the call's division, and never[j] equal to never[j] of the
\* call's division when predicate(mid) is true and to always[j] of the call's
\* division when it is false; and component j of a vector just yielded is
\* always[j] of the division of every call in progress in which j is not
\* active.
C28_InactiveCoordinates ==
    \/ stack = <<>>
    \/ /\ \/ Top.children = <<>>
          \/ \E parent \in {Val(Top.division)} :
             \E result \in {Predicate(createMidpoint(parent, heap[Top._components]))} :
                \A c \in 1..Len(Top.children) : \A j \in Inactive(Top) :
                   LET child == Val(Top.children[c])
                   IN /\ child.always[j] = parent.always[j]
                      /\ child.never[j] = IF result THEN parent.never[j]
                                                    ELSE parent.always[j]
       /\ \/ mode # "suspended"
          \/ yielded = <<>>
          \/ \A k \in 1..Len(stack) : \A j \in Inactive(stack[k]) :
                yielded[Len(yielded)][j] = Val(stack[k].division).always[j]

C28_Witness ==
    /\ mode = "suspended" /\ Len(yielded) >= 2 /\ Len(stack) >= 3
    /\ \E j \in Deactivated(stack[1]) :
          /\ neverEnd[j] # alwaysEnd[j]
          /\ Val(stack[2].division).never[j] = alwaysEnd[j]
          /\ Val(stack[3].division).always[j] = alwaysEnd[j]
    /\ Deactivated(stack[2]) # {}

\* The continuation function of some component returns true for every pair
NeverConverges ==
    /\ SameLengths
    /\ \E i \in 1..Len(shouldContinue) : shouldContinue[i] \in StuckContKinds

\* C29: when the continuation function of some component returns true for
\* every pair of arguments, no dfsBinarySearch call reaches its yield: the
\* run yields no vector, does not complete, and throws nothing.
C29_NonConvergence ==
    NeverConverges =>
        /\ yielded = <<>>
        /\ mode \notin {"done", "thrown"}
        /\ \A k \in 1..Len(stack) : stack[k].pc \notin {"yield", "return"}

C29_Witness ==
    /\ NeverConverges
    /\ mode = "running" /\ pulls = 1 /\ Len(stack) = DepthCap
    /\ Deactivated(stack[2]) # {}
    /\ Val(Top.division) = Val(stack[Len(stack) - 1].division)
    /\ calls.predicate = Len(stack)

\* The call that throws has been made
FaultHit == fault.fn # "none" /\ calls[fault.fn] >= fault.at

\* C30: once the call that throws has been made, the pull in progress has
\* ended with the error thrown, as it was thrown: the caller has caught that
\* error and no other, no call of the generator body is left, the pull has
\* yielded nothing, and the function that threw has not been called again.
\* Nothing else makes a pull fail, and the error of the call itself is only
\* that of the lengths.
C30_FailurePropagates ==
    /\ FaultHit =>
          /\ mode = "failed"
          /\ caught = fault.error
          /\ stack = <<>>
          /\ calls[fault.fn] = fault.at
    /\ mode = "failed" =>
          /\ FaultHit
          /\ pulls >= 1 /\ Len(yielded) = pulls - 1
    /\ mode # "failed" => caught = NoError
    /\ mode = "thrown" => ~SameLengths

C30_Witness ==
    /\ mode = "failed"
    /\ fault.fn = "predicate" /\ fault.at >= 3
    /\ caught = fault.error
    /\ Len(yielded) >= 1
    /\ calls.shouldContinue > calls.midpoint

====
